---- MODULE Spec2Model ----
(***************************************************************************)
(* Zod schema generation of postgres-meta.                                 *)
(*                                                                         *)
(* Two templates are modelled side by side:                                *)
(*   "zod"      src/src/server/templates/zod.ts   (pgTypeToZodType)        *)
(*   "part_000" src/unnamed/part_000              (pgTypeToZodSchema)      *)
(*                                                                         *)
(* Text is modelled as a sequence of tokens: string concatenation is \o,   *)
(* a template literal is the concatenation of its parts.  A name is the    *)
(* sequence of its chunks; the array marker "_" is always a chunk of its   *)
(* own, so startsWith('_') is a test on the first chunk and slice(1) is    *)
(* Tail.                                                                   *)
(***************************************************************************)
EXTENDS Integers, Sequences, FiniteSets, TLC

VARIABLES
    template,           \* which template's apply() runs
    schemas,            \* GeneratorMetadata.schemas   (array of schema names)
    types,              \* GeneratorMetadata.types
    tables,             \* GeneratorMetadata.tables
    foreignTables,      \* GeneratorMetadata.foreignTables
    views,              \* GeneratorMetadata.views
    materializedViews,  \* GeneratorMetadata.materializedViews
    columns,            \* GeneratorMetadata.columns
    functions,          \* GeneratorMetadata.functions
    relationships,      \* GeneratorMetadata.relationships
    columnsByTableId,   \* apply's index: relation id -> array of columns
    out,                \* the bundles emitted so far
    decls,              \* the enum, composite and function declarations emitted
    manyToMany,         \* the relationship analysis' many-to-many records
    first,              \* the document the caller got from its previous call
    run,                \* the number of the caller's call: 1 or 2
    call,               \* the resolver call in progress (a direct call)
    result,             \* what the resolver call returned
    pc                  \* position of the run

vars == <<template, schemas, types, tables, foreignTables, views,
          materializedViews, columns, functions, relationships,
          columnsByTableId, out, decls, manyToMany, first, run,
          call, result, pc>>

metadata == <<template, schemas, types, tables, foreignTables, views,
              materializedViews, columns, functions, relationships>>

\* the metadata but the schemas array
unsorted == <<template, types, tables, foreignTables, views,
              materializedViews, columns, functions, relationships>>

\* the caller's side of a run
caller == <<first, run>>

-----------------------------------------------------------------------------
(* Bounds *)

\* the largest number of leading array markers of a type name
MaxMarkers == 2

\* the largest number of entries of the types array
MaxTypes == 2

-----------------------------------------------------------------------------
(* Text helpers *)

RECURSIVE Join(_, _)
\* Array.prototype.join: the parts with sep between them
Join(parts, sep) ==
    IF parts = <<>> THEN <<>>
    ELSE IF Len(parts) = 1 THEN parts[1]
    ELSE parts[1] \o sep \o Join(Tail(parts), sep)

RECURSIVE EscapeJSON(_)
\* the escaping JSON.stringify applies inside the quotes
EscapeJSON(s) ==
    IF s = <<>> THEN <<>>
    ELSE (IF Head(s) \in {"\"", "\\"} THEN <<"\\", Head(s)>> ELSE <<Head(s)>>)
         \o EscapeJSON(Tail(s))

\* JSON.stringify of a string
JSONstringify(s) == <<"\"">> \o EscapeJSON(s) \o <<"\"">>

\* word.charAt(0).toUpperCase() + word.slice(1).toLowerCase(), for a word
\* that is a single chunk
CapitalizeWord(w) ==
    CASE w = "public"  -> "Public"
      [] w = "auth"    -> "Auth"
      [] w = "status"  -> "Status"
      [] w = "bool"    -> "Bool"
      [] w = "address" -> "Address"
      [] w = "users"   -> "Users"
      [] w = "text"    -> "Text"
      [] w = "f"       -> "F"
      [] OTHER         -> w

RECURSIVE toPascalCase(_)
\* split('_'), capitalise every word, join('')
toPascalCase(str) ==
    IF str = <<>> THEN <<>>
    ELSE IF Head(str) = "_" THEN toPascalCase(Tail(str))
    ELSE <<CapitalizeWord(Head(str))>> \o toPascalCase(Tail(str))

\* pgType.startsWith('_')
startsWithMarker(pgType) == pgType # <<>> /\ Head(pgType) = "_"

\* `z.array(${inner})`
ArrayOf(inner) == <<"z.array(">> \o inner \o <<")">>

\* `z.enum([${variants.join(', ')}])`
EnumOf(variants) ==
    <<"z.enum([">>
    \o Join([i \in 1..Len(variants) |-> JSONstringify(variants[i])], <<", ">>)
    \o <<"])">>

\* Array.prototype.find(...) || all[0]: `matching` is the elements of `all`
\* that pass find's test, in order
FindOrFirst(matching, all) ==
    IF matching # <<>> THEN Head(matching) ELSE Head(all)

RECURSIVE Flatten(_)
\* the concatenation of an array of arrays
Flatten(seqs) ==
    IF seqs = <<>> THEN <<>> ELSE Head(seqs) \o Flatten(Tail(seqs))

-----------------------------------------------------------------------------
(* The names the templates test for *)

numberTypes == {<<"int2">>, <<"int4">>, <<"int8">>, <<"float4">>, <<"float8">>,
                <<"numeric">>}

stringTypes == {<<"bytea">>, <<"bpchar">>, <<"varchar">>, <<"text">>,
                <<"citext">>, <<"time">>, <<"timetz">>, <<"vector">>}

dateLikeTypes == {<<"date">>, <<"timestamp">>, <<"timestamptz">>}

\* the list of zod.ts that maps to z.string()
zodStringTypes == stringTypes \cup dateLikeTypes \cup {<<"uuid">>}

jsonTypes == {<<"json">>, <<"jsonb">>}

-----------------------------------------------------------------------------
(* Type resolver of part_000 *)

\* getEnumVariants: the enum types named t (none: getEnumVariants is null)
enumTypesNamed(tys, t) ==
    LET IsEnumNamed(type) == type.name = t /\ Len(type.enums) > 0
    IN  SelectSeq(tys, IsEnumNamed)

\* preferredEnum without the home-schema preference
preferredEnum_FirstMatch(schema, tys, t) == Head(enumTypesNamed(tys, t))

preferredEnum(schema, tys, t) ==
    LET OfSchema(type) == type.schema = schema
        enumTypes      == enumTypesNamed(tys, t)
    IN  FindOrFirst(SelectSeq(enumTypes, OfSchema), enumTypes)

\* schemaLeaf whose date-like branch does not look at the mode
schemaLeaf_IgnoresMode(schema, pgType, tys, mode) ==
    IF enumTypesNamed(tys, pgType) # <<>>
        THEN EnumOf(preferredEnum(schema, tys, pgType).enums)
    ELSE IF pgType = <<"bool">> THEN <<"z.boolean()">>
    ELSE IF pgType \in numberTypes THEN <<"z.number()">>
    ELSE IF pgType \in dateLikeTypes THEN <<"z.coerce.date()">>
    ELSE IF pgType = <<"uuid">> THEN <<"z.string().uuid()">>
    ELSE IF pgType \in stringTypes THEN <<"z.string()">>
    ELSE IF pgType \in jsonTypes THEN <<"z.any()">>
    ELSE IF pgType = <<"void">> THEN <<"z.undefined()">>
    ELSE IF pgType = <<"record">> THEN <<"z.record(z.unknown())">>
    ELSE <<"z.unknown()">>

\* the branches of pgTypeToZodSchema below the array test
schemaLeaf(schema, pgType, tys, mode) ==
    IF enumTypesNamed(tys, pgType) # <<>>
        THEN EnumOf(preferredEnum(schema, tys, pgType).enums)
    ELSE IF pgType = <<"bool">> THEN <<"z.boolean()">>
    ELSE IF pgType \in numberTypes THEN <<"z.number()">>
    ELSE IF pgType \in dateLikeTypes
        THEN IF mode = "list"
             THEN <<"z.coerce.date()">>
             ELSE <<"z.instanceof(Date).transform(d => d.toISOString())">>
    ELSE IF pgType = <<"uuid">> THEN <<"z.string().uuid()">>
    ELSE IF pgType \in stringTypes THEN <<"z.string()">>
    ELSE IF pgType \in jsonTypes THEN <<"z.any()">>
    ELSE IF pgType = <<"void">> THEN <<"z.undefined()">>
    ELSE IF pgType = <<"record">> THEN <<"z.record(z.unknown())">>
    ELSE <<"z.unknown()">>

RECURSIVE pgTypeToZodSchema(_, _, _, _)
pgTypeToZodSchema(schema, pgType, tys, mode) ==
    IF startsWithMarker(pgType)
    THEN ArrayOf(pgTypeToZodSchema(schema, Tail(pgType), tys, mode))
    ELSE schemaLeaf(schema, pgType, tys, mode)

-----------------------------------------------------------------------------
(* Type resolver of zod.ts *)

\* the scalar branches, tested before the array marker
IsZodScalar(pgType) ==
    \/ pgType = <<"bool">>
    \/ pgType \in numberTypes
    \/ pgType \in zodStringTypes
    \/ pgType \in jsonTypes
    \/ pgType = <<"void">>
    \/ pgType = <<"record">>

zodScalar(pgType) ==
    IF pgType = <<"bool">> THEN <<"z.boolean()">>
    ELSE IF pgType \in numberTypes THEN <<"z.number()">>
    ELSE IF pgType \in zodStringTypes THEN <<"z.string()">>
    ELSE IF pgType \in jsonTypes THEN <<"JsonSchema">>
    ELSE IF pgType = <<"void">> THEN <<"z.undefined()">>
    ELSE <<"z.record(z.unknown())">>

\* `${toPascalCase(schema)}${toPascalCase(name)}${suffix}`
NamedSchema(schema, name, suffix) ==
    toPascalCase(schema) \o toPascalCase(name) \o <<suffix>>

\* zodNamed that names a composite, table or view without asking whether its
\* schema is known
zodNamed_NoKnownTest(schema, pgType, tys, schs, tabs, vws) ==
    LET Known(s)         == \E i \in 1..Len(schs) : schs[i].name = s
        OfSchema(x)      == x.schema = schema
        Named(x)         == x.name = pgType
        IsComposite(x)   == x.name = pgType /\ Len(x.attributes) > 0
        enumTypes        == enumTypesNamed(tys, pgType)
        compositeTypes   == SelectSeq(tys, IsComposite)
        tableRowTypes    == SelectSeq(tabs, Named)
        viewRowTypes     == SelectSeq(vws, Named)
    IN  IF enumTypes # <<>> THEN
            LET enumType == FindOrFirst(SelectSeq(enumTypes, OfSchema), enumTypes)
            IN  IF Known(enumType.schema)
                THEN NamedSchema(enumType.schema, enumType.name, "Schema")
                ELSE EnumOf(enumType.enums)
        ELSE IF compositeTypes # <<>> THEN
            LET compositeType ==
                    FindOrFirst(SelectSeq(compositeTypes, OfSchema), compositeTypes)
            IN  NamedSchema(compositeType.schema, compositeType.name, "Schema")
        ELSE IF tableRowTypes # <<>> THEN
            LET tableRowType ==
                    FindOrFirst(SelectSeq(tableRowTypes, OfSchema), tableRowTypes)
            IN  NamedSchema(tableRowType.schema, tableRowType.name, "RowSchema")
        ELSE IF viewRowTypes # <<>> THEN
            LET viewRowType ==
                    FindOrFirst(SelectSeq(viewRowTypes, OfSchema), viewRowTypes)
            IN  NamedSchema(viewRowType.schema, viewRowType.name, "RowSchema")
        ELSE <<"z.unknown()">>

\* the final else branch: enum, composite, table row, view row, unknown
zodNamed(schema, pgType, tys, schs, tabs, vws) ==
    LET Known(s)         == \E i \in 1..Len(schs) : schs[i].name = s
        OfSchema(x)      == x.schema = schema
        Named(x)         == x.name = pgType
        IsComposite(x)   == x.name = pgType /\ Len(x.attributes) > 0
        enumTypes        == enumTypesNamed(tys, pgType)
        compositeTypes   == SelectSeq(tys, IsComposite)
        tableRowTypes    == SelectSeq(tabs, Named)
        viewRowTypes     == SelectSeq(vws, Named)
    IN  IF enumTypes # <<>> THEN
            LET enumType == FindOrFirst(SelectSeq(enumTypes, OfSchema), enumTypes)
            IN  IF Known(enumType.schema)
                THEN NamedSchema(enumType.schema, enumType.name, "Schema")
                ELSE EnumOf(enumType.enums)
        ELSE IF compositeTypes # <<>> THEN
            LET compositeType == FindOrFirst(SelectSeq(compositeTypes, OfSchema), compositeTypes)
            IN  IF Known(compositeType.schema)
                THEN NamedSchema(compositeType.schema, compositeType.name, "Schema")
                ELSE <<"z.unknown()">>
        ELSE IF tableRowTypes # <<>> THEN
            LET tableRowType == FindOrFirst(SelectSeq(tableRowTypes, OfSchema), tableRowTypes)
            IN  IF Known(tableRowType.schema)
                THEN NamedSchema(tableRowType.schema, tableRowType.name, "RowSchema")
                ELSE <<"z.unknown()">>
        ELSE IF viewRowTypes # <<>> THEN
            LET viewRowType == FindOrFirst(SelectSeq(viewRowTypes, OfSchema), viewRowTypes)
            IN  IF Known(viewRowType.schema)
                THEN NamedSchema(viewRowType.schema, viewRowType.name, "RowSchema")
                ELSE <<"z.unknown()">>
        ELSE <<"z.unknown()">>

RECURSIVE pgTypeToZodType(_, _, _, _, _, _)
pgTypeToZodType(schema, pgType, tys, schs, tabs, vws) ==
    IF IsZodScalar(pgType) THEN zodScalar(pgType)
    ELSE IF startsWithMarker(pgType)
    THEN ArrayOf(pgTypeToZodType(schema, Tail(pgType), tys, schs, tabs, vws))
    ELSE zodNamed(schema, pgType, tys, schs, tabs, vws)

-----------------------------------------------------------------------------
(* Ordering: String.prototype.localeCompare and Array.prototype.sort *)

\* the collation rank of a chunk among the chunks the model's names use
ChunkRank(w) ==
    CASE w = "\"" -> 1
      [] w = "-" -> 2
      [] w = "_" -> 3
      [] w = "a" -> 4
      [] w = "address" -> 5
      [] w = "auth" -> 6
      [] w = "b" -> 7
      [] w = "bool" -> 8
      [] w = "f" -> 9
      [] w = "id" -> 10
      [] w = "int4" -> 11
      [] w = "public" -> 12
      [] w = "status" -> 13
      [] w = "user" -> 14
      [] w = "users" -> 15

RECURSIVE localeCompare(_, _)
\* a.localeCompare(b): negative, zero or positive
localeCompare(a, b) ==
    IF a = <<>> THEN (IF b = <<>> THEN 0 ELSE -1)
    ELSE IF b = <<>> THEN 1
    ELSE IF Head(a) = Head(b) THEN localeCompare(Tail(a), Tail(b))
    ELSE IF ChunkRank(Head(a)) < ChunkRank(Head(b)) THEN -1 ELSE 1

RECURSIVE InsertByName(_, _)
InsertByName(x, sorted) ==
    IF sorted = <<>> THEN <<x>>
    ELSE IF localeCompare(x.name, Head(sorted).name) < 0 THEN <<x>> \o sorted
    ELSE <<Head(sorted)>> \o InsertByName(x, Tail(sorted))

RECURSIVE SortByName(_)
\* seq.sort(({ name: a }, { name: b }) => a.localeCompare(b)); the sort is
\* stable
SortByName(seq) ==
    IF seq = <<>> THEN <<>>
    ELSE InsertByName(seq[Len(seq)], SortByName(SubSeq(seq, 1, Len(seq) - 1)))

-----------------------------------------------------------------------------
(* The metadata a run is given *)

Null == "NULL"

Templates == {"zod", "part_000"}

SchemaNames == {<<"public">>, <<"auth">>}

Schema(n) == [name |-> n]

\* the schemas array: any listing of some of the schema names
SchemaLists ==
    {<<>>}
    \cup {<<Schema(a)>> : a \in SchemaNames}
    \cup { l \in {<<Schema(a), Schema(b)>> : a, b \in SchemaNames} : l[1] # l[2] }

EnumType(i, n, s, e) ==
    [id |-> i, name |-> n, schema |-> s, enums |-> e, attributes |-> <<>>]

CompositeType(i, n, s, a) ==
    [id |-> i, name |-> n, schema |-> s, enums |-> <<>>, attributes |-> a]

\* two enums of one name in two schemas, an enum named like a scalar, and a
\* composite type
TypePool ==
    { EnumType(1, <<"status">>, <<"public">>, << <<"ACTIVE">>, <<"INACTIVE">> >>),
      EnumType(2, <<"status">>, <<"auth">>,   << <<"ON">>, <<"OFF">> >>),
      EnumType(3, <<"bool">>,   <<"public">>, << <<"YES">>, <<"NO">> >>),
      CompositeType(4, <<"address">>, <<"public">>,
                    << [name |-> <<"street">>, type_id |-> 25] >>) }

\* the arrays of at most n distinct elements of pool
ListsUpTo(pool, n) ==
    { l \in UNION { [1..k -> pool] : k \in 0..n } :
        \A i, j \in 1..Len(l) : i # j => l[i] # l[j] }

TypeLists == ListsUpTo(TypePool, MaxTypes)

\* a PostgresTable
Table(s) == [id |-> 1, name |-> <<"users">>, schema |-> s]

\* a PostgresView: it carries is_updatable
View(s, u) == [id |-> 1, name |-> <<"users">>, schema |-> s, is_updatable |-> u]

\* a PostgresMaterializedView: it has no is_updatable
MaterializedView(s) == [id |-> 1, name |-> <<"users">>, schema |-> s]

RECURSIVE Markers(_)
Markers(k) == IF k = 0 THEN <<>> ELSE <<"_">> \o Markers(k - 1)

\* type names without a leading marker: the empty name, scalars of every
\* rule, an enum, a composite, a row type, a range and an unknown name
BaseNames ==
    { <<>>, <<"bool">>, <<"int4">>, <<"numeric">>, <<"date">>, <<"timestamp">>,
      <<"timestamptz">>, <<"uuid">>, <<"text">>, <<"json">>, <<"void">>,
      <<"record">>, <<"status">>, <<"address">>, <<"users">>, <<"int4range">> }

TypeNames == { Markers(k) \o b : k \in 0..MaxMarkers, b \in BaseNames }

ColumnNames == { <<"id">>, <<"user", "-", "id">>, <<"a", "\"", "b">> }

ColumnFormats == { <<"int4">>, <<"_", "date">>, <<"status">>, <<"users">> }

IdentityGenerations == {Null, "BY DEFAULT", "ALWAYS"}

DefaultValues == {Null, "0"}

\* a PostgresColumn of relation 1; is_identity is the introspection's
\* "identity_generation is not null"
Columns ==
    { [table_id |-> 1, name |-> n, format |-> f, is_nullable |-> nl,
       is_identity |-> (g # Null), identity_generation |-> g,
       default_value |-> d, is_updatable |-> u] :
      n \in ColumnNames, f \in ColumnFormats, nl \in BOOLEAN,
      g \in IdentityGenerations, d \in DefaultValues, u \in BOOLEAN }

\* a base type: neither enum labels nor attributes
BaseType(i, n) ==
    [id |-> i, name |-> n, schema |-> <<"pg_catalog">>, enums |-> <<>>,
     attributes |-> <<>>]

\* the types arrays of the runs that have a function: int4 is type 23
FunctionTypeLists ==
    { <<>>,
      <<BaseType(23, <<"int4">>)>>,
      <<BaseType(23, <<"int4">>),
        EnumType(1, <<"status">>, <<"public">>, << <<"ACTIVE">>, <<"INACTIVE">> >>)>> }

\* an argument of a PostgresFunction
Arg(m, n, t, d) == [mode |-> m, name |-> n, type_id |-> t, has_default |-> d]

\* the args of a function: none, one, two named out of name order, a
\* `returns table` pair out of name order, and two unnamed
ArgLists ==
    { <<>>,
      <<Arg("in", <<"a">>, 23, FALSE)>>,
      <<Arg("in", <<"b">>, 1, TRUE), Arg("in", <<"a">>, 23, FALSE)>>,
      <<Arg("table", <<"b">>, 23, FALSE), Arg("table", <<"a">>, 1, FALSE)>>,
      <<Arg("in", <<>>, 23, FALSE), Arg("in", <<>>, 23, FALSE)>> }

\* a PostgresFunction named f; return_type_relation_id 0 stands for null, the
\* id of no relation
Function(s, a, rt, rel, setof) ==
    [schema |-> s, name |-> <<"f">>, args |-> a, return_type_id |-> rt,
     return_type_relation_id |-> rel, is_set_returning_function |-> setof]

\* return types: int4, the enum, and pseudo-type 2249 that types never lists
Functions ==
    { Function(s, a, rt, rel, setof) :
        s \in SchemaNames, a \in ArgLists, rt \in {23, 1, 2249},
        rel \in {0, 1}, setof \in BOOLEAN }

\* the functions array: one function, or two overloads of f in either order
FunctionLists ==
    { <<fn>> : fn \in Functions }
    \cup { <<Function(<<"public">>, <<>>, 23, 0, FALSE),
             Function(<<"public">>, <<Arg("in", <<"a">>, 23, FALSE)>>, 1, 0, TRUE)>>,
           <<Function(<<"public">>, <<Arg("in", <<"a">>, 23, FALSE)>>, 1, 0, TRUE),
             Function(<<"public">>, <<>>, 23, 0, FALSE)>> }

Modes == {"list", "insert", "update"}

NoCall == [schema |-> <<>>, name |-> <<>>, pgType |-> <<>>, mode |-> "none",
           depth |-> 0]

NoResult == <<"pending">>

-----------------------------------------------------------------------------
(* What the temporal validators take and give, as the templates' comments
   state it: "Read shapes coerce to Date", "Write shapes: only Date in,
   string out (ISO)" *)

TemporalRepresentations == {"Date", "ISO-8601 text", "epoch number"}

\* the representations of a point in time a temporal validator accepts
InputKinds(expr) ==
    CASE expr = <<"z.coerce.date()">> -> TemporalRepresentations
      [] expr = <<"z.instanceof(Date).transform(d => d.toISOString())">> -> {"Date"}
      [] expr = <<"z.string()">> -> {"ISO-8601 text", "other text"}
      [] OTHER -> {}

\* what it hands on
OutputKind(expr) ==
    CASE expr = <<"z.coerce.date()">> -> "Date"
      [] expr = <<"z.instanceof(Date).transform(d => d.toISOString())">> -> "ISO-8601 text"
      [] expr = <<"z.string()">> -> "text"
      [] OTHER -> "none"

-----------------------------------------------------------------------------
(* Lines and bundles *)

\* one line of an object shape: `${key}${opt ? '?' : ''}: ${val}`
Line(key, opt, val) == [key |-> key, opt |-> opt, val |-> val]

LineText(l) == l.key \o (IF l.opt THEN <<"?">> ELSE <<>>) \o <<": ">> \o l.val

\* one z.object({...}) emitted for a relation
Bundle(rel, b, ident, lines) ==
    [relation |-> rel.id, bundle |-> b, ident |-> ident, lines |-> lines]

-----------------------------------------------------------------------------
(* apply of part_000 *)

\* GENERATE_TYPES_DEFAULT_SCHEMA of ../constants.js
GENERATE_TYPES_DEFAULT_SCHEMA == <<"public">>

\* schemas.find(...) ?? schemas[0] ?? { name: defaultSchemaName }
defaultSchema ==
    LET IsDefault(s) == s.name = GENERATE_TYPES_DEFAULT_SCHEMA
        found        == SelectSeq(schemas, IsDefault)
    IN  IF found # <<>> THEN Head(found)
        ELSE IF schemas # <<>> THEN Head(schemas)
        ELSE Schema(GENERATE_TYPES_DEFAULT_SCHEMA)

defaultSchemaTables ==
    LET InDefault(t) == t.schema = defaultSchema.name
    IN  SortByName(SelectSeq(tables \o foreignTables, InDefault))

withNullable(inner, isNullable) ==
    IF isNullable THEN inner \o <<".nullable()">> ELSE inner

makeListShapeLine(col) ==
    LET base == pgTypeToZodSchema(defaultSchema.name, col.format, types, "list")
        z    == withNullable(base, col.is_nullable)
    IN  Line(JSONstringify(col.name), FALSE, z)

\* makeInsertShapeLine without its identity-ALWAYS test
makeInsertShapeLine_NoAlwaysTest(col) ==
    LET isOptional == col.is_nullable \/ col.is_identity \/ col.default_value # Null
        z0 == pgTypeToZodSchema(defaultSchema.name, col.format, types, "insert")
        z1 == withNullable(z0, col.is_nullable)
        z2 == IF isOptional THEN z1 \o <<".optional()">> ELSE z1
    IN  Line(JSONstringify(col.name), FALSE, z2)

makeInsertShapeLine(col) ==
    LET isOptional == col.is_nullable \/ col.is_identity \/ col.default_value # Null
        z0 == pgTypeToZodSchema(defaultSchema.name, col.format, types, "insert")
        z1 == withNullable(z0, col.is_nullable)
        z2 == IF isOptional THEN z1 \o <<".optional()">> ELSE z1
    IN  IF col.identity_generation = "ALWAYS"
        THEN Line(JSONstringify(col.name), TRUE, <<"z.never()">>)
        ELSE Line(JSONstringify(col.name), FALSE, z2)

\* makeUpdateShapeLine with the insert rule for optional
makeUpdateShapeLine_OptionalAsInsert(col) ==
    LET isOptional == col.is_nullable \/ col.is_identity \/ col.default_value # Null
        z0 == pgTypeToZodSchema(defaultSchema.name, col.format, types, "update")
        z1 == withNullable(z0, col.is_nullable)
        z2 == IF isOptional THEN z1 \o <<".optional()">> ELSE z1
    IN  IF col.identity_generation = "ALWAYS"
        THEN Line(JSONstringify(col.name), TRUE, <<"z.never()">>)
        ELSE Line(JSONstringify(col.name), FALSE, z2)

makeUpdateShapeLine(col) ==
    LET z0 == pgTypeToZodSchema(defaultSchema.name, col.format, types, "update")
        z1 == withNullable(z0, col.is_nullable)
        z2 == z1 \o <<".optional()">>
    IN  IF col.identity_generation = "ALWAYS"
        THEN Line(JSONstringify(col.name), TRUE, <<"z.never()">>)
        ELSE Line(JSONstringify(col.name), FALSE, z2)

\* the three shapes of one table of supabaseZodSchemas
supabaseTableBundles(table) ==
    LET cols == IF table.id \in DOMAIN columnsByTableId
                THEN columnsByTableId[table.id] ELSE <<>>
    IN  << Bundle(table, "list", JSONstringify(table.name),
                  [i \in 1..Len(cols) |-> makeListShapeLine(cols[i])]),
           Bundle(table, "insert", JSONstringify(table.name),
                  [i \in 1..Len(cols) |-> makeInsertShapeLine(cols[i])]),
           Bundle(table, "update", JSONstringify(table.name),
                  [i \in 1..Len(cols) |-> makeUpdateShapeLine(cols[i])]) >>

-----------------------------------------------------------------------------
(* apply of zod.ts *)

\* a column's line of a RowSchema (tables and views alike)
rowSchemaLine(schema, column) ==
    LET zodType  == pgTypeToZodType(schema.name, column.format, types, schemas,
                                    tables, views)
        nullable == IF column.is_nullable THEN <<".nullable()">> ELSE <<>>
    IN  Line(JSONstringify(column.name), FALSE, zodType \o nullable)

\* insertSchemaLine that forgets the declared default
insertSchemaLine_NoDefault(schema, column) ==
    LET zodType  == pgTypeToZodType(schema.name, column.format, types, schemas,
                                    tables, views)
        nullable == IF column.is_nullable THEN <<".nullable()">> ELSE <<>>
        optional == IF column.is_nullable \/ column.is_identity
                    THEN <<".optional()">> ELSE <<>>
    IN  IF column.identity_generation = "ALWAYS"
        THEN Line(JSONstringify(column.name), FALSE, <<"z.never()", ".optional()">>)
        ELSE Line(JSONstringify(column.name), FALSE, zodType \o nullable \o optional)

insertSchemaLine(schema, column) ==
    LET zodType  == pgTypeToZodType(schema.name, column.format, types, schemas,
                                    tables, views)
        nullable == IF column.is_nullable THEN <<".nullable()">> ELSE <<>>
        optional == IF \/ column.is_nullable
                       \/ column.is_identity
                       \/ column.default_value # Null
                    THEN <<".optional()">> ELSE <<>>
    IN  IF column.identity_generation = "ALWAYS"
        THEN Line(JSONstringify(column.name), FALSE, <<"z.never()", ".optional()">>)
        ELSE Line(JSONstringify(column.name), FALSE, zodType \o nullable \o optional)

updateSchemaLine(schema, column) ==
    LET zodType  == pgTypeToZodType(schema.name, column.format, types, schemas,
                                    tables, views)
        nullable == IF column.is_nullable THEN <<".nullable()">> ELSE <<>>
    IN  IF column.identity_generation = "ALWAYS"
        THEN Line(JSONstringify(column.name), FALSE, <<"z.never()", ".optional()">>)
        ELSE Line(JSONstringify(column.name), FALSE,
                  zodType \o nullable \o <<".optional()">>)

\* a column's line of a view's InsertSchema
viewInsertSchemaLine(schema, column) ==
    LET zodType == pgTypeToZodType(schema.name, column.format, types, schemas,
                                   tables, views)
    IN  IF ~column.is_updatable
        THEN Line(JSONstringify(column.name), FALSE, <<"z.never()", ".optional()">>)
        ELSE Line(column.name, FALSE, zodType \o <<".nullable()", ".optional()">>)

\* a column's line of a view's UpdateSchema
viewUpdateSchemaLine(schema, column) ==
    LET zodType == pgTypeToZodType(schema.name, column.format, types, schemas,
                                   tables, views)
    IN  IF ~column.is_updatable
        THEN Line(JSONstringify(column.name), FALSE, <<"z.never()", ".optional()">>)
        ELSE Line(column.name, FALSE, zodType \o <<".nullable()", ".optional()">>)

\* rowSchema, insertSchema and updateSchema of one table
tableBundles(schema, table) ==
    LET tableColumns == columnsByTableId[table.id]
        n            == Len(tableColumns)
    IN  << Bundle(table, "row", NamedSchema(schema.name, table.name, "RowSchema"),
                  [i \in 1..n |-> rowSchemaLine(schema, tableColumns[i])]),
           Bundle(table, "insert", NamedSchema(schema.name, table.name, "InsertSchema"),
                  [i \in 1..n |-> insertSchemaLine(schema, tableColumns[i])]),
           Bundle(table, "update", NamedSchema(schema.name, table.name, "UpdateSchema"),
                  [i \in 1..n |-> updateSchemaLine(schema, tableColumns[i])]) >>

\* viewBundles that emits insertUpdateSchemas for every view
viewBundles_IgnoresUpdatable(schema, view) ==
    LET viewColumns == columnsByTableId[view.id]
        n           == Len(viewColumns)
    IN  << Bundle(view, "row", NamedSchema(schema.name, view.name, "RowSchema"),
                  [i \in 1..n |-> rowSchemaLine(schema, viewColumns[i])]),
           Bundle(view, "insert",
                  NamedSchema(schema.name, view.name, "InsertSchema"),
                  [i \in 1..n |-> viewInsertSchemaLine(schema, viewColumns[i])]),
           Bundle(view, "update",
                  NamedSchema(schema.name, view.name, "UpdateSchema"),
                  [i \in 1..n |-> viewUpdateSchemaLine(schema, viewColumns[i])]) >>

\* rowSchema of one view, and insertUpdateSchemas when it is updatable
viewBundles(schema, view) ==
    LET viewColumns == columnsByTableId[view.id]
        n           == Len(viewColumns)
        rowSchema   ==
            Bundle(view, "row", NamedSchema(schema.name, view.name, "RowSchema"),
                   [i \in 1..n |-> rowSchemaLine(schema, viewColumns[i])])
    IN  IF "is_updatable" \in DOMAIN view /\ view.is_updatable
        THEN << rowSchema,
                Bundle(view, "insert",
                       NamedSchema(schema.name, view.name, "InsertSchema"),
                       [i \in 1..n |-> viewInsertSchemaLine(schema, viewColumns[i])]),
                Bundle(view, "update",
                       NamedSchema(schema.name, view.name, "UpdateSchema"),
                       [i \in 1..n |-> viewUpdateSchemaLine(schema, viewColumns[i])]) >>
        ELSE << rowSchema >>

\* the "Table schemas" section: every schema in name order, its tables in
\* name order
tableSection(sorted) ==
    Flatten([k \in 1..Len(sorted) |->
        LET OfSchema(t)  == t.schema = sorted[k].name
            schemaTables == SortByName(SelectSeq(tables \o foreignTables, OfSchema))
        IN  Flatten([j \in 1..Len(schemaTables) |->
                        tableBundles(sorted[k], schemaTables[j])])])

\* the "View schemas" section
viewSection(sorted) ==
    Flatten([k \in 1..Len(sorted) |->
        LET OfSchema(v) == v.schema = sorted[k].name
            schemaViews == SortByName(SelectSeq(views \o materializedViews, OfSchema))
        IN  Flatten([j \in 1..Len(schemaViews) |->
                        viewBundles(sorted[k], schemaViews[j])])])

\* a named declaration outside the relations' bundles
Decl(kind, schema, name, ident, body) ==
    [kind |-> kind, schema |-> schema.name, name |-> name, ident |-> ident,
     body |-> body]

\* types.find(({ id }) => id === type_id), then pgTypeToZodType on its name;
\* 'z.unknown()' when types has no such id
zodTypeOfId(schema, type_id) ==
    LET Is(t) == t.id = type_id
        found == SelectSeq(types, Is)
    IN  IF found = <<>> THEN <<"z.unknown()">>
        ELSE pgTypeToZodType(schema.name, Head(found).name, types, schemas,
                             tables, views)

\* the "Enum schemas" section
enumSection(sorted) ==
    Flatten([k \in 1..Len(sorted) |->
        LET IsEnumOf(t) == t.schema = sorted[k].name /\ Len(t.enums) > 0
            schemaEnums == SortByName(SelectSeq(types, IsEnumOf))
        IN  [j \in 1..Len(schemaEnums) |->
                Decl("enum", sorted[k], schemaEnums[j].name,
                     NamedSchema(sorted[k].name, schemaEnums[j].name, "Schema"),
                     EnumOf(schemaEnums[j].enums))]])

\* an attribute's line of a composite type's object
attributeLine(schema, attribute) ==
    JSONstringify(attribute.name) \o <<": ">>
    \o zodTypeOfId(schema, attribute.type_id) \o <<".nullable()">>

\* the "Composite type schemas" section
compositeSection(sorted) ==
    Flatten([k \in 1..Len(sorted) |->
        LET IsCompositeOf(t) == t.schema = sorted[k].name /\ Len(t.attributes) > 0
            schemaCompositeTypes == SortByName(SelectSeq(types, IsCompositeOf))
        IN  [j \in 1..Len(schemaCompositeTypes) |->
                LET attributes == schemaCompositeTypes[j].attributes IN
                Decl("composite", sorted[k], schemaCompositeTypes[j].name,
                     NamedSchema(sorted[k].name, schemaCompositeTypes[j].name, "Schema"),
                     <<"z.object({ ">>
                     \o Join([i \in 1..Len(attributes) |->
                                 attributeLine(sorted[k], attributes[i])], <<", ">>)
                     \o <<" })">>)]])

\* the filter of schemaFunctions: the function is of the schema, and all its
\* input args are named or it has a single input arg
functionListed(schema, func) ==
    LET IsInput(a) == a.mode \in {"in", "inout", "variadic"}
        inArgs     == SelectSeq(func.args, IsInput)
    IN  /\ func.schema = schema.name
        /\ \/ ~\E i \in 1..Len(inArgs) : inArgs[i].name = <<>>
           \/ Len(inArgs) = 1

schemaFunctions(schema) ==
    LET Listed_(func) == functionListed(schema, func)
    IN  SortByName(SelectSeq(functions, Listed_))

RECURSIVE functionNames(_)
\* the keys of schemaFunctionsGroupedByName, in the order they were added
functionNames(fns) ==
    IF fns = <<>> THEN <<>>
    ELSE LET rest == functionNames(SubSeq(fns, 1, Len(fns) - 1))
             Is(n) == n = fns[Len(fns)].name
         IN  IF SelectSeq(rest, Is) # <<>> THEN rest
             ELSE rest \o <<fns[Len(fns)].name>>

\* one overload's object of its `in` args, sorted by name
argsSchemaOf(schema, fn) ==
    LET IsIn(a) == a.mode = "in"
        inArgs  == SelectSeq(SortByName(fn.args), IsIn)
        line(a) == JSONstringify(a.name) \o <<": ">>
                   \o zodTypeOfId(schema, a.type_id)
                   \o (IF a.has_default THEN <<".optional()">> ELSE <<>>)
    IN  IF inArgs = <<>> THEN <<"z.object({})">>
        ELSE <<"z.object({ ">>
             \o Join([i \in 1..Len(inArgs) |-> line(inArgs[i])], <<", ">>)
             \o <<" })">>

argsSchema(schema, fns) ==
    IF Len(fns) = 1 THEN argsSchemaOf(schema, fns[1])
    ELSE <<"z.union([">>
         \o Join([i \in 1..Len(fns) |-> argsSchemaOf(schema, fns[i])], <<", ">>)
         \o <<"])">>

RECURSIVE beforeColon(_)
\* line.split(':')[0]
beforeColon(line) ==
    IF line = <<>> \/ Head(line) = ": " THEN <<>>
    ELSE <<Head(line)>> \o beforeColon(Tail(line))

\* Case 1: the object of the `table` args, its lines sorted by their text
\* before the colon
returnsTable(schema, tableArgs) ==
    LET line(a) == JSONstringify(a.name) \o <<": ">> \o zodTypeOfId(schema, a.type_id)
        argsNameAndType == [i \in 1..Len(tableArgs) |->
                              [name |-> beforeColon(line(tableArgs[i])),
                               text |-> line(tableArgs[i])]]
        sorted == SortByName(argsNameAndType)
    IN  <<"z.object({ ">>
        \o Join([i \in 1..Len(sorted) |-> sorted[i].text], <<", ">>)
        \o <<" })">>

\* returnsSchema, taken from the first overload
returnsSchema(schema, fns) ==
    LET IsTable(a)  == a.mode = "table"
        tableArgs   == SelectSeq(fns[1].args, IsTable)
        IsReturned(r) == r.id = fns[1].return_type_relation_id
        relation    == SelectSeq(tables \o views, IsReturned)
        chosen      ==
            IF Len(tableArgs) > 0 THEN returnsTable(schema, tableArgs)
            ELSE IF relation # <<>>
                 THEN NamedSchema(schema.name, Head(relation).name, "RowSchema")
            ELSE zodTypeOfId(schema, fns[1].return_type_id)
    IN  IF fns[1].is_set_returning_function THEN ArrayOf(chosen) ELSE chosen

\* the "Function schemas" section
functionSection(sorted) ==
    Flatten([k \in 1..Len(sorted) |->
        LET names == functionNames(schemaFunctions(sorted[k]))
        IN  Flatten([j \in 1..Len(names) |->
              LET Named(fn) == fn.name = names[j]
                  fns       == SelectSeq(schemaFunctions(sorted[k]), Named)
              IN  << Decl("args", sorted[k], names[j],
                          NamedSchema(sorted[k].name, names[j], "ArgsSchema"),
                          argsSchema(sorted[k], fns)),
                     Decl("returns", sorted[k], names[j],
                          NamedSchema(sorted[k].name, names[j], "ReturnsSchema"),
                          returnsSchema(sorted[k], fns)) >>])])

-----------------------------------------------------------------------------
(* Initial states *)

Listed(schs) == { schs[i].name : i \in 1..Len(schs) }

\* the relations of a run: none, or one relation of a listed schema
NoRelations ==
    /\ tables = <<>> /\ foreignTables = <<>>
    /\ views = <<>> /\ materializedViews = <<>>

OneRelation ==
    \E s \in Listed(schemas) :
        \/ /\ tables = <<Table(s)>> /\ foreignTables = <<>>
           /\ views = <<>> /\ materializedViews = <<>>
        \/ /\ tables = <<>> /\ foreignTables = <<Table(s)>>
           /\ views = <<>> /\ materializedViews = <<>>
        \/ /\ tables = <<>> /\ foreignTables = <<>>
           /\ views \in {<<View(s, u)>> : u \in BOOLEAN}
           /\ materializedViews = <<>>
        \/ /\ tables = <<>> /\ foreignTables = <<>>
           /\ views = <<>> /\ materializedViews = <<MaterializedView(s)>>

\* the relations a resolver call can tell apart: none, a table, a view
OneRowType ==
    \E s \in Listed(schemas) :
        /\ foreignTables = <<>> /\ materializedViews = <<>>
        /\ \/ tables = <<Table(s)>> /\ views = <<>>
           \/ tables = <<>> /\ views = <<View(s, TRUE)>>

\* a direct call of the resolver on the metadata as context; call.mode is the
\* mode the call is given (zod.ts's resolver takes none: its calls are
\* listed under "list")
InitResolve ==
    /\ types \in TypeLists
    /\ schemas \in SchemaLists
    /\ NoRelations \/ OneRowType
    /\ columns = <<>>
    /\ functions = <<>>
    /\ \E s \in SchemaNames, n \in TypeNames,
          m \in (IF template = "zod" THEN {"list"} ELSE Modes) :
            call = [schema |-> s, name |-> n, pgType |-> n, mode |-> m, depth |-> 0]
    /\ pc = "resolve"

\* a run of apply on relations and their columns; the columns of a table
\* are updatable
InitApply ==
    /\ types \in ListsUpTo(TypePool, 1)
    /\ schemas \in SchemaLists
    /\ \/ NoRelations /\ columns = <<>>
       \/ /\ OneRelation
          /\ columns \in {<<c>> : c \in Columns}
          /\ (tables # <<>> \/ foreignTables # <<>>) => columns[1].is_updatable
    /\ functions = <<>>
    /\ call = NoCall
    /\ pc = "index"

\* a run of apply of zod.ts on functions (part_000's apply takes none)
InitFunctions ==
    /\ template = "zod"
    /\ types \in FunctionTypeLists
    /\ schemas \in SchemaLists
    /\ NoRelations \/ OneRelation
    /\ columns = <<>>
    /\ functions \in FunctionLists
    /\ call = NoCall
    /\ pc = "index"

\* two enums named status, neither of schema public
ForeignEnums ==
    { EnumType(2, <<"status">>, <<"auth">>, << <<"ON">>, <<"OFF">> >>),
      EnumType(5, <<"status">>, <<"extensions">>, << <<"UP">>, <<"DOWN">> >>) }

\* the arrays that list every element of a set once
Listings(set) == { l \in ListsUpTo(set, Cardinality(set)) : Len(l) = Cardinality(set) }

\* two columns of relation 1
TwoColumns ==
    { c \in Columns :
        /\ <<c.name, c.format>> \in { <<<<"id">>, <<"int4">>>>,
                                      <<<<"user", "-", "id">>, <<"status">>>> }
        /\ ~c.is_nullable /\ c.identity_generation = Null
        /\ c.default_value = Null /\ c.is_updatable }

\* a run of apply on a table of schema public with two columns, one of them
\* of an enum type of another schema
InitOrder ==
    /\ types \in Listings(ForeignEnums)
    /\ schemas \in { l \in SchemaLists : <<"public">> \in Listed(l) }
    /\ tables = <<Table(<<"public">>)>> /\ foreignTables = <<>>
    /\ views = <<>> /\ materializedViews = <<>>
    /\ columns \in Listings(TwoColumns)
    /\ functions = <<>>
    /\ call = NoCall
    /\ pc = "index"

-----------------------------------------------------------------------------
(* The relationship analysis.  Its code is not among the sources; it is
   modelled from the specification's sections 3 and 4.2. *)

\* a Relationship: a foreign key of a source relation
Relationship(rel, cols, ref) ==
    [relation |-> rel, columns |-> cols, referenced_relation |-> ref,
     referenced_columns |-> <<"id">>]

\* the foreign keys of two relations j and k to a and b, a second one of j to
\* a, and one of a to b
RelationshipPool ==
    { Relationship(<<"j">>, <<"a_id">>, <<"a">>),
      Relationship(<<"j">>, <<"b_id">>, <<"b">>),
      Relationship(<<"j">>, <<"other_id">>, <<"a">>),
      Relationship(<<"k">>, <<"a_id">>, <<"a">>),
      Relationship(<<"k">>, <<"b_id">>, <<"b">>),
      Relationship(<<"a">>, <<"b_id">>, <<"b">>) }

RECURSIVE ListingOf(_)
\* one array that lists the elements of a set
ListingOf(set) ==
    IF set = {} THEN <<>>
    ELSE LET x == CHOOSE y \in set : TRUE IN <<x>> \o ListingOf(set \ {x})

RelationshipLists == { ListingOf(set) : set \in SUBSET RelationshipPool }

\* the Relationships that point away from a relation
outgoing(rel) ==
    LET From(r) == r.relation = rel IN SelectSeq(relationships, From)

\* isJunction that takes two or more outgoing Relationships
isJunction_AtLeastTwo(rel) == Len(outgoing(rel)) >= 2

\* a relation qualifies as a junction if it has exactly two outgoing
\* Relationships
isJunction(rel) == Len(outgoing(rel)) = 2

\* a derived many-to-many record
ManyToMany(join, left, right, leftKey, rightKey) ==
    [joinTable |-> join, leftTable |-> left, rightTable |-> right,
     leftKey |-> leftKey, rightKey |-> rightKey]

\* the two directional records of a junction: left to right, and its mirror
\* with the keys swapped
directional(rel) ==
    LET l == outgoing(rel)[1]
        r == outgoing(rel)[2]
    IN  { ManyToMany(rel, l.referenced_relation, r.referenced_relation,
                     l.columns, r.columns),
          ManyToMany(rel, r.referenced_relation, l.referenced_relation,
                     r.columns, l.columns) }

\* the records of every qualifying junction
inferred ==
    UNION { directional(relationships[i].relation) :
              i \in { n \in 1..Len(relationships) :
                        isJunction(relationships[n].relation) } }

\* the outcomes of merging the records per relation, deduplicated by target:
\* of the records of one relation to one target exactly one is kept
mergedByTarget(records) ==
    { kept \in SUBSET records :
        \A r \in records :
            Cardinality({ x \in kept : /\ x.leftTable = r.leftTable
                                       /\ x.rightTable = r.rightTable }) = 1 }

\* a run of the relationship analysis
InitAnalyze ==
    /\ relationships \in RelationshipLists
    /\ schemas = <<Schema(<<"public">>)>>
    /\ types = <<>> /\ columns = <<>> /\ functions = <<>>
    /\ NoRelations
    /\ call = NoCall
    /\ pc = "analyze"

\* the collections of the metadata, in the order apply is handed them
Collections == <<schemas, types, tables, foreignTables, views,
                 materializedViews, columns, functions, relationships>>

Init ==
    /\ template \in Templates
    /\ \/ (InitResolve \/ InitApply \/ InitFunctions \/ InitOrder)
          /\ relationships = <<>>
       \/ InitAnalyze
    /\ columnsByTableId = <<>>
    /\ out = <<>>
    /\ decls = <<>>
    /\ manyToMany = {}
    /\ first = <<>>
    /\ run = 1
    /\ result = NoResult

-----------------------------------------------------------------------------
(* The resolver call, step by step *)

\* ResolveArray that loses the wrapper of the level it leaves
ResolveArray_DropsWrapper ==
    /\ pc = "resolve"
    /\ template = "zod" => ~IsZodScalar(call.pgType)
    /\ startsWithMarker(call.pgType)
    /\ call' = [call EXCEPT !.pgType = Tail(@)]
    /\ UNCHANGED <<metadata, columnsByTableId, out, decls, manyToMany, caller,
                   result, pc>>

\* the call takes the array branch: one marker is stripped and the call
\* recurses on the rest
ResolveArray ==
    /\ pc = "resolve"
    /\ template = "zod" => ~IsZodScalar(call.pgType)
    /\ startsWithMarker(call.pgType)
    /\ call' = [call EXCEPT !.pgType = Tail(@), !.depth = @ + 1]
    /\ UNCHANGED <<metadata, columnsByTableId, out, decls, manyToMany, caller,
                   result, pc>>

RECURSIVE Nest(_, _)
\* k array-of wrappers around inner
Nest(k, inner) == IF k = 0 THEN inner ELSE ArrayOf(Nest(k - 1, inner))

\* the innermost call takes a branch that returns, and every pending call
\* wraps what it gets
ResolveReturn ==
    /\ pc = "resolve"
    /\ (template = "zod" /\ IsZodScalar(call.pgType)) \/ ~startsWithMarker(call.pgType)
    /\ result' =
         Nest(call.depth,
              IF template = "zod"
              THEN IF IsZodScalar(call.pgType) THEN zodScalar(call.pgType)
                   ELSE zodNamed(call.schema, call.pgType, types, schemas, tables, views)
              ELSE schemaLeaf(call.schema, call.pgType, types, call.mode))
    /\ pc' = "resolved"
    /\ UNCHANGED <<metadata, columnsByTableId, out, decls, manyToMany, caller,
                   call>>

-----------------------------------------------------------------------------
(* apply, section by section *)

\* columnsByTableId: every relation's columns, in name order
IndexColumns ==
    /\ pc = "index"
    /\ LET relations == tables \o foreignTables \o views \o materializedViews
           ids       == { relations[i].id : i \in 1..Len(relations) }
           Indexed(c) == c.table_id \in ids
           sorted    == SortByName(SelectSeq(columns, Indexed))
       IN  columnsByTableId' =
             [id \in ids |->
                LET Of(c) == c.table_id = id IN SelectSeq(sorted, Of)]
    /\ pc' = IF template = "zod" THEN "enums" ELSE "tables"
    /\ UNCHANGED <<metadata, out, decls, manyToMany, caller, call, result>>

\* part_000: supabaseZodSchemas, the tables of the default schema
EmitSupabaseZodSchemas ==
    /\ pc = "tables"
    /\ template = "part_000"
    /\ out' = out \o Flatten([j \in 1..Len(defaultSchemaTables) |->
                                supabaseTableBundles(defaultSchemaTables[j])])
    /\ pc' = "done"
    /\ UNCHANGED <<metadata, columnsByTableId, decls, manyToMany, caller, call,
                   result>>

\* zod.ts: the "Enum schemas" section; schemas.sort() sorts the array it is
\* given
EmitEnumSchemas ==
    /\ pc = "enums"
    /\ template = "zod"
    /\ schemas' = SortByName(schemas)
    /\ decls' = decls \o enumSection(SortByName(schemas))
    /\ pc' = "composites"
    /\ UNCHANGED <<unsorted, columnsByTableId, out, manyToMany, caller, call,
                   result>>

\* zod.ts: the "Composite type schemas" section
EmitCompositeSchemas ==
    /\ pc = "composites"
    /\ template = "zod"
    /\ schemas' = SortByName(schemas)
    /\ decls' = decls \o compositeSection(SortByName(schemas))
    /\ pc' = "tables"
    /\ UNCHANGED <<unsorted, columnsByTableId, out, manyToMany, caller, call,
                   result>>

\* zod.ts: the "Table schemas" section
EmitTableSchemas ==
    /\ pc = "tables"
    /\ template = "zod"
    /\ schemas' = SortByName(schemas)
    /\ out' = out \o tableSection(SortByName(schemas))
    /\ pc' = "views"
    /\ UNCHANGED <<unsorted, columnsByTableId, decls, manyToMany, caller, call,
                   result>>

\* zod.ts: the "View schemas" section
EmitViewSchemas ==
    /\ pc = "views"
    /\ template = "zod"
    /\ schemas' = SortByName(schemas)
    /\ out' = out \o viewSection(SortByName(schemas))
    /\ pc' = "functions"
    /\ UNCHANGED <<unsorted, columnsByTableId, decls, manyToMany, caller, call,
                   result>>

\* zod.ts: the "Function schemas" section
EmitFunctionSchemas ==
    /\ pc = "functions"
    /\ template = "zod"
    /\ schemas' = SortByName(schemas)
    /\ decls' = decls \o functionSection(SortByName(schemas))
    /\ pc' = "done"
    /\ UNCHANGED <<unsorted, columnsByTableId, out, manyToMany, caller, call,
                   result>>

\* the orders a collection's elements can be listed in
Reorderings(seq) ==
    { [i \in 1..Len(seq) |-> seq[f[i]]] :
        f \in { g \in [1..Len(seq) -> 1..Len(seq)] :
                  \A i, j \in 1..Len(seq) : i # j => g[i] # g[j] } }

\* the caller keeps the document and calls apply again on the same
\* collections, their elements listed in another order
CallAgain ==
    /\ pc = "done"
    /\ run = 1
    /\ first' = <<out, decls>>
    /\ run' = 2
    /\ schemas' \in Reorderings(schemas)
    /\ types' \in Reorderings(types)
    /\ tables' \in Reorderings(tables)
    /\ foreignTables' \in Reorderings(foreignTables)
    /\ views' \in Reorderings(views)
    /\ materializedViews' \in Reorderings(materializedViews)
    /\ columns' \in Reorderings(columns)
    /\ functions' \in Reorderings(functions)
    /\ UNCHANGED <<template, relationships, manyToMany, call, result>>
    /\ Collections' # Collections
    /\ columnsByTableId' = <<>>
    /\ out' = <<>>
    /\ decls' = <<>>
    /\ pc' = "index"

\* analyze: the many-to-many records, computed once per run
AnalyzeRelationships ==
    /\ pc = "analyze"
    /\ manyToMany' \in mergedByTarget(inferred)
    /\ pc' = "analyzed"
    /\ UNCHANGED <<metadata, columnsByTableId, out, decls, caller, call, result>>

Next ==
    \/ AnalyzeRelationships
    \/ CallAgain
    \/ ResolveArray
    \/ ResolveReturn
    \/ IndexColumns
    \/ EmitSupabaseZodSchemas
    \/ EmitEnumSchemas
    \/ EmitCompositeSchemas
    \/ EmitTableSchemas
    \/ EmitViewSchemas
    \/ EmitFunctionSchemas

Spec == Init /\ [][Next]_vars

TypeOK ==
    /\ template \in Templates
    /\ pc \in {"resolve", "resolved", "index", "enums", "composites", "tables",
              "views", "functions", "done", "analyze", "analyzed"}

-----------------------------------------------------------------------------
(* What the claims speak of *)

AllRelations == tables \o foreignTables \o views \o materializedViews

RelationById(id) ==
    LET Is(r) == r.id = id IN Head(SelectSeq(AllRelations, Is))

IsTableId(id) ==
    \E i \in 1..Len(tables \o foreignTables) : (tables \o foreignTables)[i].id = id

IsViewId(id) ==
    \E i \in 1..Len(views \o materializedViews) :
        (views \o materializedViews)[i].id = id

\* the places of the emitted document: bundle k, line i
Places ==
    UNION { { <<k, i>> : i \in 1..Len(out[k].lines) } : k \in 1..Len(out) }

TablePlaces(bundle) ==
    { p \in Places : IsTableId(out[p[1]].relation) /\ out[p[1]].bundle = bundle }

ViewPlaces(bundle) ==
    { p \in Places : IsViewId(out[p[1]].relation) /\ out[p[1]].bundle = bundle }

LineAt(p) == out[p[1]].lines[p[2]]

ColumnAt(p) == columnsByTableId[out[p[1]].relation][p[2]]

\* the column's type as the template resolves it for the shape of place p
ResolvedAt(p) ==
    IF template = "zod"
    THEN pgTypeToZodType(RelationById(out[p[1]].relation).schema, ColumnAt(p).format,
                         types, schemas, tables, views)
    ELSE pgTypeToZodSchema(defaultSchema.name, ColumnAt(p).format, types,
                           out[p[1]].bundle)

\* x occurs in y as a run of consecutive tokens
IsInfix(x, y) ==
    \E i \in 1..(Len(y) - Len(x) + 1) : SubSeq(y, i, i + Len(x) - 1) = x

\* the forced "never accept a value" validator, made optional: by the key's
\* optional marker or by the optional wrapper
ForcedNeverOptional(l) ==
    \/ l.opt /\ l.val = <<"z.never()">>
    \/ ~l.opt /\ l.val = <<"z.never()", ".optional()">>

\* C1: for every table column whose identity-generation is ALWAYS, whatever
\* its nullability, default and type, the insert line and the update line are
\* the never validator made optional, and the column's resolved type
\* validator does not occur in them.
C1_AlwaysForcedNever ==
    \A p \in TablePlaces("insert") \cup TablePlaces("update") :
        ColumnAt(p).identity_generation = "ALWAYS" =>
            /\ ForcedNeverOptional(LineAt(p))
            /\ ~IsInfix(ResolvedAt(p), LineText(LineAt(p)))

\* an identity-ALWAYS, nullable column with a default has had its insert
\* line emitted
C1_Witness ==
    \E p \in TablePlaces("insert") :
        /\ ColumnAt(p).identity_generation = "ALWAYS"
        /\ ColumnAt(p).is_nullable
        /\ ColumnAt(p).default_value # Null
        /\ ColumnAt(p).format = <<"int4">>

WrapIf(cond, wrapper) == IF cond THEN <<wrapper>> ELSE <<>>

\* C2: for every table column whose identity-generation is not ALWAYS, the
\* insert line is the resolved type, then the nullable wrapper iff the column
\* is nullable, then the optional wrapper iff the column is nullable or its
\* identity-generation is not NONE or it declares a default.
C2_InsertLine ==
    \A p \in TablePlaces("insert") :
        LET c == ColumnAt(p) IN
        c.identity_generation # "ALWAYS" =>
            /\ ~LineAt(p).opt
            /\ LineAt(p).val =
                 ResolvedAt(p)
                 \o WrapIf(c.is_nullable, ".nullable()")
                 \o WrapIf(\/ c.is_nullable
                           \/ c.identity_generation # Null
                           \/ c.default_value # Null, ".optional()")

\* the insert line of a BY DEFAULT identity column that is neither nullable
\* nor defaulted has been emitted
C2_Witness ==
    \E p \in TablePlaces("insert") :
        /\ ColumnAt(p).identity_generation = "BY DEFAULT"
        /\ ~ColumnAt(p).is_nullable
        /\ ColumnAt(p).default_value = Null
        /\ LineAt(p).val = ResolvedAt(p) \o <<".optional()">>

Last(seq) == seq[Len(seq)]

\* C3: a nullable column without default and identity has the insert line
\* <type>.nullable().optional(), never <type>.optional() alone; and the
\* update line of every column that is not identity-ALWAYS ends in
\* .optional().
C3_NullableThenOptional ==
    /\ \A p \in TablePlaces("insert") :
        LET c == ColumnAt(p) IN
        (c.is_nullable /\ c.default_value = Null /\ c.identity_generation = Null) =>
            /\ LineAt(p).val = ResolvedAt(p) \o <<".nullable()", ".optional()">>
            /\ LineAt(p).val # ResolvedAt(p) \o <<".optional()">>
    /\ \A p \in TablePlaces("update") :
        ColumnAt(p).identity_generation # "ALWAYS" =>
            /\ LineAt(p).val # <<>>
            /\ Last(LineAt(p).val) = ".optional()"

\* both lines have been emitted: the insert line of a nullable column without
\* default and identity, and the update line of a column that is neither
\* nullable nor defaulted
C3_Witness ==
    /\ pc = "done"
    /\ \E p \in TablePlaces("insert") :
        /\ ColumnAt(p).is_nullable
        /\ ColumnAt(p).default_value = Null
        /\ ColumnAt(p).identity_generation = Null
    /\ \E p \in TablePlaces("update") :
        /\ ColumnAt(p).is_nullable
        /\ Last(LineAt(p).val) = ".optional()"

-----------------------------------------------------------------------------
(* The resolver claims *)

RECURSIVE LeadingMarkers(_)
\* the number k of leading array markers of a name
LeadingMarkers(n) ==
    IF n # <<>> /\ Head(n) = "_" THEN 1 + LeadingMarkers(Tail(n)) ELSE 0

\* the base name: what follows the leading markers
BaseName(n) == SubSeq(n, LeadingMarkers(n) + 1, Len(n))

Repeat(tok, k) == [i \in 1..k |-> tok]

\* the template's resolver, as apply calls it
ResolveBy(schema, pgType, mode) ==
    IF template = "zod"
    THEN pgTypeToZodType(schema, pgType, types, schemas, tables, views)
    ELSE pgTypeToZodSchema(schema, pgType, types, mode)

Resolving == pc = "resolve"

Resolved == pc = "resolved"

\* C4: a name of k leading markers and a base name resolves, in every mode,
\* to exactly k nested array-of wrappers around the resolution of the base
\* name in the same mode; every recursive step strips exactly one marker and
\* there are at most k of them, after which the call returns.
C4_ArrayNesting ==
    LET k == LeadingMarkers(call.name) IN
    /\ (Resolving \/ Resolved) =>
          /\ call.depth + LeadingMarkers(call.pgType) = k
          /\ BaseName(call.pgType) = BaseName(call.name)
          /\ call.depth <= k
    /\ Resolving => ENABLED (ResolveArray \/ ResolveReturn)
    /\ Resolved =>
          /\ result = Repeat("z.array(", k)
                      \o ResolveBy(call.schema, BaseName(call.name), call.mode)
                      \o Repeat(")", k)
          /\ result = ResolveBy(call.schema, call.name, call.mode)

\* a call on a name of two markers has returned
C4_Witness ==
    /\ Resolved
    /\ call.name = <<"_", "_", "int4">>
    /\ call.depth = 2
    /\ result = <<"z.array(", "z.array(", "z.number()", ")", ")">>

\* the enum types of the context that a name matches, in declared order
MatchingEnums(n) ==
    LET Is(t) == t.name = n /\ t.enums # <<>> IN SelectSeq(types, Is)

\* the enum the claim picks: the home schema's if one exists, else the first
ChosenEnum(home, n) ==
    LET m == MatchingEnums(n)
    IN  IF \E i \in 1..Len(m) : m[i].schema = home
        THEN m[CHOOSE i \in 1..Len(m) :
                    /\ m[i].schema = home
                    /\ \A j \in 1..(i - 1) : m[j].schema # home]
        ELSE m[1]

\* the inline enumeration validator of an enum's variants, in declared order
InlineEnum(t) ==
    <<"z.enum([">>
    \o Flatten([i \in 1..Len(t.enums) |->
                  (IF i = 1 THEN <<>> ELSE <<", ">>) \o JSONstringify(t.enums[i])])
    \o <<"])">>

MatchesEnum == ~startsWithMarker(call.name) /\ MatchingEnums(call.name) # <<>>

\* C5 as stated: a non-array name that matches enum types resolves to the
\* inline enumeration of the chosen enum's variants, never to a reference to a
\* named schema-level validator.
C5_AlwaysInline ==
    (Resolved /\ MatchesEnum) =>
        result = InlineEnum(ChosenEnum(call.schema, call.name))

\* C5, amended: pgTypeToZodSchema (part_000) resolves such a name to the
\* inline enumeration of the chosen enum; pgTypeToZodType (zod.ts) resolves
\* it to the reference <Schema><Name>Schema when the chosen enum's schema is
\* among the known schemas and to the inline enumeration otherwise, except
\* for a name that is one of its scalar names, which it resolves as that
\* scalar.
C5_InlineOrReference ==
    (Resolved /\ MatchesEnum) =>
        LET e == ChosenEnum(call.schema, call.name) IN
        IF template = "part_000" THEN result = InlineEnum(e)
        ELSE IF IsZodScalar(call.name) THEN result = zodScalar(call.name)
        ELSE IF e.schema \in Listed(schemas)
             THEN result = toPascalCase(e.schema) \o toPascalCase(e.name) \o <<"Schema">>
             ELSE result = InlineEnum(e)

\* two enums are named status, the home schema owns the second, and zod.ts
\* has resolved the name to the reference to it
C5_Witness ==
    /\ Resolved
    /\ template = "zod"
    /\ call.name = <<"status">>
    /\ call.schema = <<"auth">>
    /\ Len(MatchingEnums(call.name)) = 2
    /\ MatchingEnums(call.name)[1].schema = <<"public">>
    /\ result = <<"Auth", "Status", "Schema">>

\* the scalar names of either template
ScalarNames ==
    {<<"bool">>, <<"uuid">>, <<"void">>, <<"record">>}
    \cup numberTypes \cup stringTypes \cup dateLikeTypes \cup jsonTypes

\* the rule a result comes from
RuleOf(r) ==
    IF r # <<>> /\ Head(r) = "z.array(" THEN "array"
    ELSE IF \/ r # <<>> /\ Head(r) = "z.enum(["
            \/ \E i \in 1..Len(types) :
                  /\ types[i].enums # <<>>
                  /\ r = toPascalCase(types[i].schema) \o toPascalCase(types[i].name)
                         \o <<"Schema">>
         THEN "enum"
    ELSE IF r \in { <<"z.boolean()">>, <<"z.number()">>, <<"z.coerce.date()">>,
                    <<"z.instanceof(Date).transform(d => d.toISOString())">>,
                    <<"z.string().uuid()">>, <<"z.string()">>, <<"z.any()">>,
                    <<"JsonSchema">>, <<"z.undefined()">>,
                    <<"z.record(z.unknown())">> }
         THEN "scalar"
    ELSE "other"

\* the first rule, in the claim's order, whose condition holds
FirstRule(n) ==
    IF startsWithMarker(n) THEN "array"
    ELSE IF MatchingEnums(n) # <<>> THEN "enum"
    ELSE IF n \in ScalarNames THEN "scalar"
    ELSE "other"

\* C6 as stated: the result is that of the first rule that applies, in the
\* order array marker, enum-name match, scalar rules, the rest; so a name
\* that matches an enum type resolves to the enumeration validator even when
\* it is also a scalar name.
C6_PriorityOrder ==
    Resolved => RuleOf(result) = FirstRule(call.name)

TemporalCall == call.name \in dateLikeTypes /\ MatchingEnums(call.name) = <<>>

\* C7 as stated: date, timestamp and timestamptz resolve in list mode to a
\* validator coercing any accepted representation into an in-memory value,
\* and in insert and update mode to a validator that requires canonical
\* ISO-8601 text as its input and is not the list-mode validator.
C7_WriteTakesText ==
    (Resolved /\ TemporalCall) =>
        IF call.mode = "list"
        THEN /\ InputKinds(result) = TemporalRepresentations
             /\ OutputKind(result) = "Date"
        ELSE /\ InputKinds(result) = {"ISO-8601 text"}
             /\ result # ResolveBy(call.schema, call.name, "list")

\* C7, amended: pgTypeToZodSchema (part_000) resolves date, timestamp and
\* timestamptz in list mode to a validator coercing any accepted
\* representation into an in-memory Date, and in insert and update mode to a
\* validator that requires an in-memory Date as its input and hands on its
\* canonical ISO-8601 text, never the list-mode validator; pgTypeToZodType
\* (zod.ts) is given no mode and resolves the three to the plain string
\* validator for every shape.
C7_WriteTakesDate ==
    (Resolved /\ TemporalCall) =>
        IF template = "zod"
        THEN result = <<"z.string()">>
        ELSE IF call.mode = "list"
        THEN /\ InputKinds(result) = TemporalRepresentations
             /\ OutputKind(result) = "Date"
        ELSE /\ InputKinds(result) = {"Date"}
             /\ OutputKind(result) = "ISO-8601 text"
             /\ result # ResolveBy(call.schema, call.name, "list")

\* part_000 has resolved timestamptz in insert mode
C7_Witness ==
    /\ Resolved
    /\ template = "part_000"
    /\ call.name = <<"timestamptz">>
    /\ call.mode = "insert"
    /\ result = <<"z.instanceof(Date).transform(d => d.toISOString())">>

\* a name none of the array, enum and scalar rules matches
Unmatched(n) ==
    /\ ~startsWithMarker(n)
    /\ MatchingEnums(n) = <<>>
    /\ n \notin ScalarNames

\* every resolver call returns a validator expression
Total ==
    /\ Resolving => ENABLED (ResolveArray \/ ResolveReturn)
    /\ Resolved => result # NoResult /\ result # <<>>

\* C8 as stated: resolve is total, and every name the array, enum and scalar
\* rules do not match resolves to the unknown validator.
C8_UnmatchedIsUnknown ==
    /\ Total
    /\ (Resolved /\ Unmatched(call.name)) => result = <<"z.unknown()">>

\* the composite type, table or view that zod.ts names for an unmatched
\* name: the first kind, in this order, with an entry of that name, and of
\* that kind the home schema's entry, else the first
NamedEntries(n) ==
    LET IsComposite(t) == t.name = n /\ t.attributes # <<>>
        Named(r)       == r.name = n
        composites     == SelectSeq(types, IsComposite)
        rowTables      == SelectSeq(tables, Named)
        rowViews       == SelectSeq(views, Named)
    IN  IF composites # <<>> THEN [suffix |-> "Schema", entries |-> composites]
        ELSE IF rowTables # <<>> THEN [suffix |-> "RowSchema", entries |-> rowTables]
        ELSE [suffix |-> "RowSchema", entries |-> rowViews]

HomeOrFirst(home, entries) ==
    IF \E i \in 1..Len(entries) : entries[i].schema = home
    THEN entries[CHOOSE i \in 1..Len(entries) :
                    /\ entries[i].schema = home
                    /\ \A j \in 1..(i - 1) : entries[j].schema # home]
    ELSE entries[1]

\* C8, amended: resolve is total in both templates.  In pgTypeToZodSchema
\* (part_000) every name the array, enum and scalar rules do not match
\* resolves to the unknown validator.  In pgTypeToZodType (zod.ts) such a
\* name resolves to a reference to the named validator of the composite
\* type, else table, else view of that name when the schema of the one it
\* picks is among the known schemas, and to the unknown validator otherwise.
C8_UnmatchedIsUnknownOrNamed ==
    /\ Total
    /\ (Resolved /\ Unmatched(call.name)) =>
          LET ne == NamedEntries(call.name) IN
          IF template = "part_000" \/ ne.entries = <<>>
          THEN result = <<"z.unknown()">>
          ELSE LET x == HomeOrFirst(call.schema, ne.entries) IN
               IF x.schema \in Listed(schemas)
               THEN result = toPascalCase(x.schema) \o toPascalCase(x.name)
                             \o <<ne.suffix>>
               ELSE result = <<"z.unknown()">>

\* zod.ts has resolved the name of a composite type of a known schema, called
\* from another home schema, to the reference to its named validator
C8_Witness ==
    /\ Resolved
    /\ template = "zod"
    /\ call.name = <<"address">>
    /\ call.schema = <<"auth">>
    /\ Unmatched(call.name)
    /\ NamedEntries(call.name).entries # <<>>
    /\ <<"public">> \in Listed(schemas)
    /\ result = <<"Public", "Address", "Schema">>

-----------------------------------------------------------------------------
(* The key and view claims *)

RECURSIVE UnescapeJSON(_)
\* the string a JSON string literal's body stands for
UnescapeJSON(s) ==
    IF s = <<>> THEN <<>>
    ELSE IF Head(s) = "\\" /\ Len(s) >= 2
         THEN <<s[2]>> \o UnescapeJSON(Tail(Tail(s)))
    ELSE <<Head(s)>> \o UnescapeJSON(Tail(s))

\* key is a quoted literal that stands for name
QuotedKeyOf(key, name) ==
    /\ Len(key) >= 2
    /\ Head(key) = "\"" /\ Last(key) = "\""
    /\ UnescapeJSON(SubSeq(key, 2, Len(key) - 1)) = name

\* C9 as stated: in every emitted bundle of every relation kind every column
\* key is a quoted literal that preserves the column's name exactly, and no
\* line uses the bare column name as its key.
C9_QuotedKeys ==
    \A p \in Places :
        /\ QuotedKeyOf(LineAt(p).key, ColumnAt(p).name)
        /\ LineAt(p).key # ColumnAt(p).name

ViewsOfRun == views \o materializedViews

HasBundle(id, b) ==
    \E k \in 1..Len(out) : out[k].relation = id /\ out[k].bundle = b

\* C10: in zod.ts a view has an insert and an update bundle iff it carries
\* is_updatable = true, and a row bundle in any case; in the insert and
\* update bundles a column not flagged updatable is the never validator made
\* optional, and an updatable column is its resolution, as in the row
\* bundle, made nullable and then optional, whatever its nullability,
\* identity-generation and default.
C10_UpdatableViews ==
    (template = "zod" /\ pc = "done") =>
        /\ \A i \in 1..Len(ViewsOfRun) :
            LET v == ViewsOfRun[i]
                updatable == "is_updatable" \in DOMAIN v /\ v.is_updatable
            IN  /\ HasBundle(v.id, "row")
                /\ HasBundle(v.id, "insert") <=> updatable
                /\ HasBundle(v.id, "update") <=> updatable
        /\ \A p \in ViewPlaces("insert") \cup ViewPlaces("update") :
            IF ColumnAt(p).is_updatable
            THEN /\ LineAt(p).val = ResolvedAt(p) \o <<".nullable()", ".optional()">>
                 /\ ~LineAt(p).opt
            ELSE ForcedNeverOptional(LineAt(p))

\* an updatable view's insert bundle holds an updatable column that is not
\* nullable, is identity-ALWAYS and has a default
C10_Witness ==
    /\ template = "zod"
    /\ pc = "done"
    /\ \E p \in ViewPlaces("insert") :
        /\ ColumnAt(p).is_updatable
        /\ ~ColumnAt(p).is_nullable
        /\ ColumnAt(p).identity_generation = "ALWAYS"
        /\ ColumnAt(p).default_value # Null
        /\ LineAt(p).val = <<"z.number()", ".nullable()", ".optional()">>

-----------------------------------------------------------------------------
(* The function claims *)

\* the functions of a schema that bear a name, in the order they are listed
FunctionsNamed(schema, name) ==
    LET Is(fn) == fn.schema = schema /\ fn.name = name
    IN  SelectSeq(functions, Is)

\* the object validator of arguments, sorted by name
ObjectOfArgs(schema, args) ==
    LET sorted == SortByName(args)
    IN  <<"z.object({ ">>
        \o Flatten([i \in 1..Len(sorted) |->
                      (IF i = 1 THEN <<>> ELSE <<", ">>)
                      \o JSONstringify(sorted[i].name) \o <<": ">>
                      \o (IF \E j \in 1..Len(types) : types[j].id = sorted[i].type_id
                          THEN ResolveBy(schema,
                                         types[CHOOSE j \in 1..Len(types) :
                                                 types[j].id = sorted[i].type_id].name,
                                         "list")
                          ELSE <<"z.unknown()">>)])
        \o <<" })">>

\* x is the returns validator the claim's priority picks for fn; the known
\* relations are the tables and the views
IsChosenReturns(x, fn) ==
    LET IsTable(a) == a.mode = "table"
        tableArgs  == SelectSeq(fn.args, IsTable)
        Returned(r) == r.id = fn.return_type_relation_id
        relation   == SelectSeq(tables \o views, Returned)
    IN  IF tableArgs # <<>> THEN x = ObjectOfArgs(fn.schema, tableArgs)
        ELSE IF relation # <<>>
             THEN \E k \in 1..Len(out) :
                     /\ out[k].relation = Head(relation).id
                     /\ out[k].bundle = "row"
                     /\ x = out[k].ident
        ELSE IF \E j \in 1..Len(types) : types[j].id = fn.return_type_id
             THEN x = ResolveBy(fn.schema,
                                types[CHOOSE j \in 1..Len(types) :
                                        types[j].id = fn.return_type_id].name,
                                "list")
        ELSE x = <<"z.unknown()">>

\* C11 as stated: the returns validator of every function name is (a) the
\* object validator of its table-mode arguments sorted by name, else (b) the
\* reference to the row validator of the relation whose row type it returns,
\* else (c) the Type Resolver's result for its return type, unknown when the
\* type is not known; wrapped in array-of exactly when the function is
\* set-returning.
C11_ReturnsPriority ==
    (template = "zod" /\ pc = "done") =>
        \A i \in 1..Len(decls) :
            decls[i].kind = "returns" =>
                LET fn   == Head(FunctionsNamed(decls[i].schema, decls[i].name))
                    body == decls[i].body
                IN  IF fn.is_set_returning_function
                    THEN /\ Len(body) >= 3
                         /\ Head(body) = "z.array("
                         /\ Last(body) = ")"
                         /\ IsChosenReturns(SubSeq(body, 2, Len(body) - 1), fn)
                    ELSE IsChosenReturns(body, fn)

-----------------------------------------------------------------------------
(* The claims about the collections *)

\* the document apply has built
Document == <<out, decls>>

\* C12 as stated: apply builds the same document for two inputs whose
\* collections hold the same elements listed in different orders.
C12_OrderIndependent ==
    (pc = "done" /\ run = 2) => Document = first

\* C13 as stated: a run treats its metadata as a read-only snapshot: no step
\* of apply adds, removes, reorders or modifies an element of an input
\* collection, so a second run on the same objects sees what the first saw.
C13_ReadOnlySnapshot ==
    [][pc # "done" => Collections' = Collections]_vars

-----------------------------------------------------------------------------
(* The many-to-many claim *)

\* the foreign keys that leave a relation
KeysOf(rel) == { i \in 1..Len(relationships) : relationships[i].relation = rel }

Sources == { relationships[i].relation : i \in 1..Len(relationships) }

\* the relations with exactly two outgoing foreign keys, to two relations
JunctionsOfTwo ==
    { rel \in Sources :
        /\ Cardinality(KeysOf(rel)) = 2
        /\ \E i, j \in KeysOf(rel) :
              relationships[i].referenced_relation
                  # relationships[j].referenced_relation }

\* the accessor on the relation key i of a junction points to, targeting the
\* relation its key j points to
Accessor(i, j) ==
    [joinTable |-> relationships[i].relation,
     leftTable |-> relationships[i].referenced_relation,
     rightTable |-> relationships[j].referenced_relation,
     leftKey |-> relationships[i].columns,
     rightKey |-> relationships[j].columns]

\* the relations a junction links
Linked(rel) == { relationships[i].referenced_relation : i \in KeysOf(rel) }

\* every accessor is through a relation with exactly two outgoing keys
OnlyThroughJunctions ==
    \A rec \in manyToMany :
        /\ Cardinality(KeysOf(rec.joinTable)) = 2
        /\ \E i, j \in KeysOf(rec.joinTable) : i # j /\ rec = Accessor(i, j)

-----------------------------------------------------------------------------
(* The claim about references *)

\* the names the document defines: the relations' bundles, the enum,
\* composite and function declarations, and JsonSchema of the preamble
Defined ==
    { out[k].ident : k \in 1..Len(out) }
    \cup { decls[k].ident : k \in 1..Len(decls) }
    \cup { <<"JsonSchema">> }

\* the validator expressions of the document
Expressions ==
    { LineAt(p).val : p \in Places } \cup { decls[k].body : k \in 1..Len(decls) }

\* the names a reference to an enum, composite, table-row or view-row
\* validator can have: SchemaName + RelationOrTypeName + suffix
ReferenceNames ==
    LET owners == Listed(schemas)
                  \cup { types[k].schema : k \in 1..Len(types) }
                  \cup { AllRelations[k].schema : k \in 1..Len(AllRelations) }
                  \cup { functions[k].schema : k \in 1..Len(functions) }
        names  == { types[k].name : k \in 1..Len(types) }
                  \cup { AllRelations[k].name : k \in 1..Len(AllRelations) }
    IN  { toPascalCase(s) \o toPascalCase(n) \o <<suffix>> :
            s \in owners, n \in names, suffix \in {"Schema", "RowSchema"} }

\* the named validators the document refers to
Referenced ==
    { r \in ReferenceNames : \E e \in Expressions : IsInfix(r, e) }

\* C15 as stated: every named validator the generated document references is
\* defined in that document, whatever the schemas of the referencing item and
\* of the referenced item.
C15_ReferencesDefined ==
    pc = "done" => Referenced \subseteq Defined

=============================================================================
